---- MODULE Spec2Model ----
(***************************************************************************)
(* Scene-graph generation and consistency engine of                        *)
(* backend/vn_generator.py: the process-wide STORY_CACHE, the scene        *)
(* synthesizer with its in-progress guard, the runtime scene resolver,     *)
(* the top-level generation run, the scene graph index and the graph       *)
(* validator.                                                              *)
(*                                                                         *)
(* Scheduling is asyncio's: a coroutine runs without interruption from one *)
(* suspension point (an await that really suspends) to the next, so every  *)
(* action below is the code between two suspension points.                 *)
(***************************************************************************)
EXTENDS Integers, Sequences, FiniteSets, TLC

VARIABLES
    generated_scenes,    \* STORY_CACHE["generated_scenes"]: scene id -> scene, NoScene when absent
    in_progress_scenes,  \* STORY_CACHE["in_progress_scenes"]
    scene_graph,         \* STORY_CACHE["scene_graph"]: the set of ids that have an index entry
    book_analysis,       \* STORY_CACHE["book_analysis"]
    GEMINI_AVAILABLE,    \* the module flag set by the import at lines 11-15
    IMAGE_CACHE,         \* the image cache of lines 34-37: description or character id -> image
    task,                \* the coroutines generate_scene_from_outline_with_gemini / generate_next_scene
    run,                 \* the coroutine generate_visual_novel
    hist,                \* history: what the coroutines did to the cache and the backend
    script,              \* script_data["scenes"] handed to the validator
    script0,             \* the same list as it was before the validator ran
    vpc,                 \* where the validator is
    vchoice              \* the iteration order and the random picks the validator made

vars == <<generated_scenes, in_progress_scenes, scene_graph, book_analysis, GEMINI_AVAILABLE, IMAGE_CACHE,
          task, run, hist, script, script0, vpc, vchoice>>

cacheVars == <<generated_scenes, in_progress_scenes, scene_graph, book_analysis, GEMINI_AVAILABLE, IMAGE_CACHE,
               task, run, hist>>
validatorVars == <<script, script0, vpc, vchoice>>

(***************************************************************************)
(* Scene ids are strings; the validator compares them by substring, so an  *)
(* id is the sequence of its characters ("scene_" is abbreviated to "s").  *)
(***************************************************************************)
scene_intro == <<"s", "i">>
scene_1     == <<"s", "1">>
scene_2     == <<"s", "2">>
scene_2a    == <<"s", "2", "a">>
scene_9     == <<"s", "9">>
scene_2b    == <<"s", "2", "b">>
scene_3     == <<"s", "3">>
scene_next  == <<"s", "n">>
scene_alt   == <<"s", "l">>
exit        == <<"e">>

\* Python's `a in b` on strings
IsSubstring(a, b) ==
    \E i \in 1..(Len(b) - Len(a) + 1) : SubSeq(b, i, i + Len(a) - 1) = a

\* every order in which a set can be iterated
Orders(S) ==
    {f \in [1..Cardinality(S) -> S] : \A i, j \in 1..Cardinality(S) : f[i] = f[j] => i = j}

Choice(t, n) == [text |-> t, nextScene |-> n]
Plain(sp) == [speaker |-> sp, hasChoices |-> FALSE, choices |-> <<>>]
WithChoices(sp, cs) == [speaker |-> sp, hasChoices |-> TRUE, choices |-> cs]
\* a choice text is a sequence of words, so that "Continue to <id>" can be built
ExploreText == <<"Explore a different path">>

\* A scene dict. kind and by name the object (which call built it, and as what): two list
\* or cache slots holding a scene with the same kind and by hold the same Python object.
Scene(id, kind, by, chars, dialogue) ==
    [id |-> id, kind |-> kind, by |-> by, characters |-> chars, dialogue |-> dialogue,
     generated_with |-> ""]
NoScene == Scene(<<>>, "none", 0, <<>>, <<>>)
SameObject(a, b) == a.kind = b.kind /\ a.by = b.by

(***************************************************************************)
(* validate_and_fix_scene_connections                                      *)
(***************************************************************************)
SceneIds(sd) == {sd[i].id : i \in DOMAIN sd}

\* next_scene_refs, collected once before any repair (lines 1279-1291)
NextSceneRefs(sd) ==
    UNION {UNION {{[source_scene |-> sd[i].id,
                    choice_text  |-> sd[i].dialogue[j].choices[k].text,
                    next_scene   |-> sd[i].dialogue[j].choices[k].nextScene] :
                        k \in DOMAIN sd[i].dialogue[j].choices} :
                  j \in {m \in DOMAIN sd[i].dialogue : sd[i].dialogue[m].hasChoices}} :
           i \in DOMAIN sd}

InvalidRefs(sd) ==
    {ref \in NextSceneRefs(sd) : ref.next_scene \notin SceneIds(sd) /\ ref.next_scene # exit}

\* similar_ids, in the iteration order ord of scene_ids (line 1304)
SimilarIds(next, ord) ==
    SelectSeq(ord, LAMBDA sid : IsSubstring(next, sid) \/ IsSubstring(sid, next))

\* the id an invalid reference is rewritten to (lines 1313-1319)
\* FixTarget without the fallback of line 1318: the reference stays as it is
FixTargetNoFallback(next, ord) ==
    IF SimilarIds(next, ord) # <<>> THEN SimilarIds(next, ord)[1] ELSE next

\* FixTarget that always takes the first-iterated id
FixTargetFirstId(next, ord) == ord[1]

FixTarget(next, ord) ==
    IF SimilarIds(next, ord) # <<>> THEN SimilarIds(next, ord)[1] ELSE ord[1]

\* a repair that rewrites every choice that does not exit, valid or not
RepairAllReferences(sd, ord) ==
    [i \in DOMAIN sd |->
        [sd[i] EXCEPT !.dialogue =
            [j \in DOMAIN sd[i].dialogue |->
                [sd[i].dialogue[j] EXCEPT !.choices =
                    [k \in DOMAIN sd[i].dialogue[j].choices |->
                        LET c == sd[i].dialogue[j].choices[k] IN
                        IF c.nextScene # exit
                        THEN [c EXCEPT !.nextScene = FixTarget(c.nextScene, ord)]
                        ELSE c]]]]]

\* lines 1299-1319: every choice matching an invalid reference is rewritten
RepairReferences(sd, ord) ==
    LET invalid_refs == InvalidRefs(sd) IN
    [i \in DOMAIN sd |->
        [sd[i] EXCEPT !.dialogue =
            [j \in DOMAIN sd[i].dialogue |->
                [sd[i].dialogue[j] EXCEPT !.choices =
                    [k \in DOMAIN sd[i].dialogue[j].choices |->
                        LET c == sd[i].dialogue[j].choices[k] IN
                        IF \E ref \in invalid_refs :
                              /\ ref.source_scene = sd[i].id
                              /\ ref.choice_text = c.text
                              /\ ref.next_scene = c.nextScene
                        THEN [c EXCEPT !.nextScene = FixTarget(c.nextScene, ord)]
                        ELSE c]]]]]

\* lines 1322-1326
\* InitialReachable that always starts from the first id of the iteration order
InitialReachableFirst(ids, ord) == {ord[1]}

InitialReachable(ids, ord) ==
    IF scene_intro \in ids \/ scene_1 \in ids THEN {scene_intro, scene_1} ELSE {ord[1]}

\* lines 1329-1335: fixpoint over the references collected before the repair
RECURSIVE Expand(_, _)
Expand(reachable, refs) ==
    LET more == reachable \cup
                {ref.next_scene : ref \in {r \in refs : r.source_scene \in reachable
                                                       /\ r.next_scene # exit}}
    IN IF more = reachable THEN reachable ELSE Expand(more, refs)

Reachable(sd, ord) == Expand(InitialReachable(SceneIds(sd), ord), NextSceneRefs(sd))

Unreachable(sd, ord) == SceneIds(sd) \ Reachable(sd, ord)

\* index of the last dialogue entry carrying a choices list, 0 when none (lines 1351-1352)
LastChoiceEntry(dialogue) ==
    IF \E j \in DOMAIN dialogue : dialogue[j].hasChoices
    THEN CHOOSE j \in DOMAIN dialogue :
            /\ dialogue[j].hasChoices
            /\ \A m \in DOMAIN dialogue : dialogue[m].hasChoices => m <= j
    ELSE 0

\* s with n copies of c appended
RECURSIVE AppendTimes(_, _, _)
AppendTimes(s, c, n) == IF n = 0 THEN s ELSE AppendTimes(Append(s, c), c, n - 1)

\* lines 1344-1357 for one unreachable scene: every list slot whose scene has the picked
\* source id appends the new choice to that scene's last entry with choices (the break
\* leaves only the inner loop), so an object held by n such slots gets it n times
AddConnection(sd, source_scene_id, scene_id) ==
    [i \in DOMAIN sd |->
        IF sd[i].id = source_scene_id /\ LastChoiceEntry(sd[i].dialogue) # 0
        THEN [sd[i] EXCEPT !.dialogue[LastChoiceEntry(sd[i].dialogue)].choices =
                AppendTimes(@, Choice(ExploreText, scene_id),
                            Cardinality({m \in DOMAIN sd : SameObject(sd[m], sd[i])}))]
        ELSE sd[i]]

\* lines 1342-1357: the unreachable scenes in iteration order uord, pick[u] = random.choice
RECURSIVE RepairReachability(_, _, _)
RepairReachability(sd, uord, pick) ==
    IF uord = <<>> THEN sd
    ELSE RepairReachability(AddConnection(sd, pick[Head(uord)], Head(uord)), Tail(uord), pick)

validate_and_fix_scene_connections(sd, ord, uord, pick) ==
    RepairReachability(RepairReferences(sd, ord), uord, pick)

(***************************************************************************)
(* The book analysis and the character lookup                              *)
(***************************************************************************)
\* IMAGE_CACHE as the module creates it (lines 34-37)
NoImages == [backgrounds |-> <<>>, characters |-> <<>>]

\* a character record without "name", and one whose "name" is None
NoName == "<no name>"
NullName == "<None>"
Character(id, name) == [id |-> id, name |-> name]
NoBook == [isNone |-> TRUE, characters |-> <<>>]
Book(chars) == [isNone |-> FALSE, characters |-> chars]
BookOk == Book(<<Character("holmes", "Holmes")>>)
BookNoName == Book(<<Character("holmes", NoName)>>)
BookNullName == Book(<<Character("holmes", NullName)>>)

\* str.lower() on the names and ids used here
Lower(name) == IF name = "Holmes" THEN "holmes" ELSE IF name = "Watson" THEN "watson" ELSE name

\* next((c for c in characters if c.get("id") == char_id
\*       or c.get("name").lower() == char_id.lower()), None)   (lines 621, 988)
RECURSIVE FindCharacter(_, _)
FindCharacter(chars, char_id) ==
    IF chars = <<>> THEN [status |-> "none", char |-> Character("", "")]
    ELSE IF Head(chars).id = char_id THEN [status |-> "found", char |-> Head(chars)]
    ELSE IF Head(chars).name \in {NoName, NullName}
         THEN [status |-> "raise", char |-> Head(chars)]
    ELSE IF Lower(Head(chars).name) = Lower(char_id) THEN [status |-> "found", char |-> Head(chars)]
    ELSE FindCharacter(Tail(chars), char_id)

\* the loops at lines 619-623 and 986-993 raise AttributeError
LookupRaises(scene_outline, book) ==
    \E k \in DOMAIN scene_outline.characters :
        book.isNone \/ FindCharacter(book.characters, scene_outline.characters[k]).status = "raise"

Outline(id, chars, connects) == [id |-> id, characters |-> chars, connects_to |-> connects]

(***************************************************************************)
(* create_placeholder_scene and generate_placeholder_scene                 *)
(***************************************************************************)
RECURSIVE PlaceholderCharacters(_, _)
PlaceholderCharacters(char_ids, book) ==
    IF char_ids = <<>> THEN <<>>
    ELSE LET f == FindCharacter(book.characters, Head(char_ids)) IN
         (IF f.status = "found" THEN <<f.char.id>> ELSE <<>>)
            \o PlaceholderCharacters(Tail(char_ids), book)

\* a placeholder whose choice texts carry the number of the call that builds it
PlaceholderNamingCall(scene_id, scene_outline, book, t) ==
    Scene(scene_id, "placeholder", t, <<"character">>,
          <<Plain("Narrator"), Plain("Narrator"), Plain("character"),
            WithChoices("Narrator", <<Choice(<<"Continue", t>>, scene_next)>>)>>)

\* a placeholder with one "Continue" choice whatever the outline connects to
PlaceholderOneChoice(scene_id, scene_outline, book, t) ==
    Scene(scene_id, "placeholder", t, <<"character">>,
          <<Plain("Narrator"), Plain("Narrator"), Plain("character"),
            WithChoices("Narrator", <<Choice(<<"Continue">>, scene_next)>>)>>)

\* lines 982-1060, when the lookup does not raise
create_placeholder_scene(scene_id, scene_outline, book, t) ==
    LET found == PlaceholderCharacters(scene_outline.characters, book)
        characters == IF found = <<>> THEN <<"character">> ELSE found
        connections == scene_outline.connects_to
        choices == IF connections = <<>> THEN <<Choice(<<"Continue">>, scene_next)>>
                   ELSE [k \in DOMAIN connections |->
                            Choice(<<"Continue to">> \o connections[k], connections[k])]
        dialogue == <<Plain("Narrator"), Plain("Narrator")>>
                    \o (IF characters # <<>> THEN <<Plain(characters[1])>> ELSE <<>>)
                    \o <<WithChoices("Narrator", choices)>>
    IN Scene(scene_id, "placeholder", t, characters, dialogue)

\* f"scene_{random.randint(1000, 9999)}" (lines 1638, 1642)
scene_1000 == <<"s", "1", "0", "0", "0">>
scene_9999 == <<"s", "9", "9", "9", "9">>
\* the two draws of one call: different, or the same
RandomPairs == {<<scene_1000, scene_9999>>, <<scene_9999, scene_9999>>}

\* lines 1602-1659, when book_analysis is a dict; r1 and r2 are the two random targets
generate_placeholder_scene(scene_id, book, t, r1, r2) ==
    LET characters == book.characters
        char_ids == [i \in 1..(IF Len(characters) < 2 THEN Len(characters) ELSE 2) |->
                        characters[i].id]
        speaker1 == IF characters = <<>> \/ characters[1].name = NoName
                    THEN "Character" ELSE characters[1].name
        speaker2 == IF Len(characters) < 2 \/ characters[2].name = NoName
                    THEN "Friend" ELSE characters[2].name
    IN [Scene(scene_id, "runtime placeholder", t, char_ids,
              <<Plain("Narrator"), Plain(speaker1), Plain(speaker2),
                WithChoices("Narrator", <<Choice(<<"Continue the adventure">>, r1),
                                          Choice(<<"Take a different path">>, r2)>>)>>)
        EXCEPT !.generated_with = "Placeholder"]

(***************************************************************************)
(* The validator on its own: any scene list of at most MaxScenes scenes.   *)
(***************************************************************************)
MaxScenes == 2

VIds == {scene_intro, scene_1, scene_2, scene_2a}
VDialogues ==
    {<<Plain("Narrator")>>,
     <<Plain("Narrator"), WithChoices("Narrator", <<Choice(<<"a">>, exit)>>)>>,
     <<Plain("Narrator"), WithChoices("Narrator", <<Choice(<<"a">>, scene_9)>>)>>,
     <<Plain("Narrator"), WithChoices("Narrator", <<Choice(<<"a">>, scene_2)>>)>>,
     <<WithChoices("Narrator", <<Choice(<<"a">>, scene_2a)>>), Plain("Narrator")>>,
     <<WithChoices("Narrator", <<Choice(<<"a">>, scene_1), Choice(<<"b">>, scene_intro)>>)>>}
VScenes == {Scene(i, "real", 0, <<>>, d) : i \in VIds, d \in VDialogues}
\* the scenes of a list are distinct objects
VScripts ==
    UNION {{[i \in 1..n |-> [f[i] EXCEPT !.by = i]] : f \in [1..n -> VScenes]} : n \in 1..MaxScenes}

\* the scenes the synthesizer falls back to for the outlines scene_1 (connects to
\* scene_2, which no outline declares) and scene_3 (no connections)
EndToEndScript ==
    <<create_placeholder_scene(scene_1, Outline(scene_1, <<>>, <<scene_2>>), BookOk, 1),
      create_placeholder_scene(scene_3, Outline(scene_3, <<>>, <<>>), BookOk, 2)>>

NoChoice == [ord |-> <<>>, uord |-> <<>>, pick |-> <<>>]

Validate ==
    /\ vpc \in {"input", "validated"}
    /\ \E ord \in Orders(SceneIds(script)) :
          LET reachable == Reachable(script, ord)
              unreachable == SceneIds(script) \ reachable
          IN \E uord \in Orders(unreachable) :
             \E pick \in [unreachable -> reachable] :
                /\ script' = validate_and_fix_scene_connections(script, ord, uord, pick)
                /\ vchoice' = [ord |-> ord, uord |-> uord, pick |-> pick]
    /\ script0' = script
    /\ vpc' = IF vpc = "input" THEN "validated" ELSE "revalidated"
    /\ UNCHANGED cacheVars

CacheIdle ==
    /\ generated_scenes = <<>>
    /\ in_progress_scenes = {}
    /\ scene_graph = <<>>
    /\ book_analysis = <<>>
    /\ GEMINI_AVAILABLE = TRUE
    /\ IMAGE_CACHE = NoImages
    /\ task = <<>>
    /\ run = <<>>
    /\ hist = <<>>

InitV ==
    /\ script \in VScripts \cup {EndToEndScript}
    /\ script0 = script
    /\ vpc = "input"
    /\ vchoice = NoChoice
    /\ CacheIdle

NextV == Validate

SpecV == InitV /\ [][NextV]_vars

\* ---- what a valid graph is
Validated == vpc \in {"validated", "revalidated"}

\* choices of a scene list, as (scene index, choice) pairs
Dangling(sd) ==
    {ref \in NextSceneRefs(sd) : ref.next_scene # exit /\ ref.next_scene \notin SceneIds(sd)}

\* the designated entry: scene_intro, then scene_1, else the first-iterated scene
EntryId(sd, ord) ==
    IF scene_intro \in SceneIds(sd) THEN scene_intro
    ELSE IF scene_1 \in SceneIds(sd) THEN scene_1 ELSE ord[1]

\* forward closure from the entry over the choices the scene list has now
ReachableFrom(sd, entry) == Expand({entry}, NextSceneRefs(sd))

\* C1: after validate returns on a non-empty scene set, every choice's nextScene is
\* "exit" or the id of a scene of the set
C1_NoDanglingReferences == Validated => Dangling(script) = {}

\* C1 happens: validate has returned on a list that had an invalid reference
C1_Witness == vpc = "validated" /\ Dangling(script0) # {} /\ Unreachable(script0, vchoice.ord) # {}

\* C2: after validate returns, every scene id is reachable from the designated entry id
\* over non-exit choices, or is the entry itself
C2_FullReachability ==
    vpc = "validated" => SceneIds(script) \subseteq ReachableFrom(script, EntryId(script, vchoice.ord))

(***************************************************************************)
(* STORY_CACHE maps                                                        *)
(***************************************************************************)
Put(m, k, v) == [x \in (DOMAIN m) \cup {k} |-> IF x = k THEN v ELSE m[x]]
Count(m, k) == IF k \in DOMAIN m THEN m[k] ELSE 0

\* a mutation of the object o shows in every slot that holds o
MutateObject(m, o, new) == [k \in DOMAIN m |-> IF SameObject(m[k], o) THEN new ELSE m[k]]

(***************************************************************************)
(* update_scene_graph                                                      *)
(***************************************************************************)
EmptyEntry == [outgoing |-> <<>>, incoming |-> <<>>]
Targets(conns) == {conns[i].target : i \in DOMAIN conns}
Sources(conns) == {conns[i].source : i \in DOMAIN conns}

\* the choices of a scene in dialogue order (the loops at lines 171-173)
RECURSIVE DialogueChoices(_)
DialogueChoices(dialogue) ==
    IF dialogue = <<>> THEN <<>>
    ELSE (IF Head(dialogue).hasChoices THEN Head(dialogue).choices ELSE <<>>)
            \o DialogueChoices(Tail(dialogue))

\* an index update that appends both edges of a choice without looking at the lists
AddChoiceEdgeAlways(g, scene_id, choice) ==
    IF choice.nextScene = exit THEN g
    ELSE LET next == choice.nextScene
             g1 == [g EXCEPT ![scene_id].outgoing =
                       Append(@, [target |-> next, text |-> choice.text])]
             g2 == IF next \notin DOMAIN g1 THEN Put(g1, next, EmptyEntry) ELSE g1
         IN [g2 EXCEPT ![next].incoming = Append(@, [source |-> scene_id, text |-> choice.text])]

\* an index update that looks for the target in the outgoing list only and appends the
\* incoming edge of every choice
AddChoiceEdgeIncomingAlways(g, scene_id, choice) ==
    IF choice.nextScene = exit THEN g
    ELSE LET next == choice.nextScene
             g1 == IF next \notin Targets(g[scene_id].outgoing)
                   THEN [g EXCEPT ![scene_id].outgoing =
                            Append(@, [target |-> next, text |-> choice.text])]
                   ELSE g
             g2 == IF next \notin DOMAIN g1 THEN Put(g1, next, EmptyEntry) ELSE g1
         IN [g2 EXCEPT ![next].incoming = Append(@, [source |-> scene_id, text |-> choice.text])]

\* lines 174-194 for one choice of scene scene_id
AddChoiceEdge(g, scene_id, choice) ==
    IF choice.nextScene = exit THEN g
    ELSE LET next == choice.nextScene
             g1 == IF next \notin Targets(g[scene_id].outgoing)
                   THEN [g EXCEPT ![scene_id].outgoing =
                            Append(@, [target |-> next, text |-> choice.text])]
                   ELSE g
             g2 == IF next \notin DOMAIN g1 THEN Put(g1, next, EmptyEntry) ELSE g1
         IN IF scene_id \notin Sources(g2[next].incoming)
            THEN [g2 EXCEPT ![next].incoming =
                    Append(@, [source |-> scene_id, text |-> choice.text])]
            ELSE g2

RECURSIVE AddChoiceEdges(_, _, _)
AddChoiceEdges(g, scene_id, choices) ==
    IF choices = <<>> THEN g
    ELSE AddChoiceEdges(AddChoiceEdge(g, scene_id, Head(choices)), scene_id, Tail(choices))

\* lines 163-194 for one scene
AddSceneToGraph(g, scene) ==
    AddChoiceEdges(IF scene.id \in DOMAIN g THEN g ELSE Put(g, scene.id, EmptyEntry),
                   scene.id, DialogueChoices(scene.dialogue))

\* lines 152-197: cache is [scenes, graph]; every scene of the list is stored under its
\* own id (line 161) and indexed
RECURSIVE update_scene_graph(_, _)
update_scene_graph(cache, sd) ==
    IF sd = <<>> THEN cache
    ELSE update_scene_graph([scenes |-> Put(cache.scenes, Head(sd).id, Head(sd)),
                             graph  |-> AddSceneToGraph(cache.graph, Head(sd))],
                            Tail(sd))

(***************************************************************************)
(* generate_scene_from_outline_with_gemini, one operator per stretch of    *)
(* code between suspension points. Each returns what the stretch did:      *)
(* gs, ip the cache after it, pc where the call is, ret what it returned,  *)
(* writes how often it assigned generated_scenes[scene_id], gens whether   *)
(* it called the text backend. spc and sret keep how the synthesizer call  *)
(* itself ended when its caller generate_next_scene goes on in the same    *)
(* stretch, pwrites counts the writes of generate_placeholder_scene, held  *)
(* says that the synthesizer returned the object the cache held under the  *)
(* id at that moment, parsed that json.loads accepted the backend's answer. *)
(***************************************************************************)
PollLimit == 30

Effect(gs, ip, pc, ret, path, writes, gens) ==
    [gs |-> gs, ip |-> ip, pc |-> pc, ret |-> ret, path |-> path,
     writes |-> writes, gens |-> gens, pwrites |-> 0,
     spc |-> IF pc \in {"done", "raised"} THEN pc ELSE "", sret |-> ret, held |-> FALSE,
     parsed |-> FALSE]
NoSynth(e) == [e EXCEPT !.spc = "", !.sret = NoScene]
AtExit(e, scene_id) ==
    [e EXCEPT !.held = /\ e.pc = "done"
                       /\ scene_id \in DOMAIN e.gs
                       /\ SameObject(e.gs[scene_id], e.ret)]

\* lines 613-725: claim the id, look the characters up, call the backend. A lookup that
\* raises is caught at line 778, where create_placeholder_scene repeats the lookup and
\* raises out of the handler: the call ends with the exception, the marker stays.
SynthClaim(gs, ip, scene_outline, book, path) ==
    IF LookupRaises(scene_outline, book)
    THEN Effect(gs, ip \cup {scene_outline.id}, "raised", NoScene, path, 0, 0)
    ELSE Effect(gs, ip \cup {scene_outline.id}, "backend", NoScene, path, 0, 1)

\* SynthEnter without the cache check of lines 598-600
SynthEnterUncached(gs, ip, scene_outline, book) ==
    IF scene_outline.id \in ip
    THEN Effect(gs, ip, "sleep", NoScene, "waiting", 0, 0)
    ELSE SynthClaim(gs, ip, scene_outline, book, "generated")

\* SynthEnter without the in-progress check of lines 603-611
SynthEnterNoWait(gs, ip, scene_outline, book) ==
    IF scene_outline.id \in DOMAIN gs
    THEN Effect(gs, ip, "done", gs[scene_outline.id], "cached", 0, 0)
    ELSE SynthClaim(gs, ip, scene_outline, book, "generated")

\* SynthEnter that calls the backend without adding the marker of line 613
SynthEnterNoClaim(gs, ip, scene_outline, book) ==
    IF scene_outline.id \in DOMAIN gs
    THEN Effect(gs, ip, "done", gs[scene_outline.id], "cached", 0, 0)
    ELSE IF scene_outline.id \in ip
    THEN Effect(gs, ip, "sleep", NoScene, "waiting", 0, 0)
    ELSE [SynthClaim(gs, ip, scene_outline, book, "generated") EXCEPT !.ip = ip]

\* lines 595-725, from the call to the first suspension point
SynthEnter(gs, ip, scene_outline, book) ==
    IF scene_outline.id \in DOMAIN gs
    THEN Effect(gs, ip, "done", gs[scene_outline.id], "cached", 0, 0)
    ELSE IF scene_outline.id \in ip
    THEN Effect(gs, ip, "sleep", NoScene, "waiting", 0, 0)
    ELSE SynthClaim(gs, ip, scene_outline, book, "generated")

\* SynthPoll with range(31)
SynthPollOneMore(gs, ip, scene_outline, book, polls) ==
    IF scene_outline.id \in DOMAIN gs
    THEN Effect(gs, ip, "done", gs[scene_outline.id], "waited", 0, 0)
    ELSE IF polls < PollLimit
    THEN Effect(gs, ip, "sleep", NoScene, "waiting", 0, 0)
    ELSE SynthClaim(gs, ip, scene_outline, book, "timed out")

\* SynthPoll that does not look at the cache after the last sleep
SynthPollLastUnchecked(gs, ip, scene_outline, book, polls) ==
    IF polls + 1 >= PollLimit
    THEN SynthClaim(gs, ip, scene_outline, book, "timed out")
    ELSE IF scene_outline.id \in DOMAIN gs
    THEN Effect(gs, ip, "done", gs[scene_outline.id], "waited", 0, 0)
    ELSE Effect(gs, ip, "sleep", NoScene, "waiting", 0, 0)

\* lines 606-614: one wake-up from asyncio.sleep(1), polls wake-ups were made before
SynthPoll(gs, ip, scene_outline, book, polls) ==
    IF scene_outline.id \in DOMAIN gs
    THEN Effect(gs, ip, "done", gs[scene_outline.id], "waited", 0, 0)
    ELSE IF polls + 1 < PollLimit
    THEN Effect(gs, ip, "sleep", NoScene, "waiting", 0, 0)
    ELSE SynthClaim(gs, ip, scene_outline, book, "timed out")

\* SynthFinish whose handler at line 778 returns its placeholder without storing it
SynthFinishHandlerNoStore(gs, ip, scene_outline, book, t, outcome, scene_data) ==
    LET scene_id == scene_outline.id
        marked == scene_id \in ip
        placeholder_scene == create_placeholder_scene(scene_id, scene_outline, book, t)
        parsed == outcome \in {"ok", "empty", "repaired"}
        ret == IF parsed /\ marked THEN scene_data ELSE placeholder_scene
        handled == ~marked \/ outcome = "error"
        stored == IF handled /\ parsed THEN scene_data ELSE ret
    IN [Effect(IF handled /\ outcome = "error" THEN gs ELSE Put(gs, scene_id, stored),
               ip \ {scene_id}, "done", ret, "", 1, 0)
           EXCEPT !.parsed = parsed]

\* what the text backend can answer
Outcomes == {"ok", "empty", "repaired", "unparseable", "error"}

\* lines 727-791: the backend has answered. outcome:
\*   ok          json.loads gives the dict scene_data
\*   empty       json.loads gives {}
\*   repaired    JSONDecodeError, attempt_json_repair changes the text and it parses
\*   unparseable JSONDecodeError, the repair does not help
\*   error       an exception before any write (backend failure, no text, not a dict)
\* set.remove raises KeyError when the marker is gone: from lines 743 and 774 it lands in
\* the handler at 778, from line 761 in the bare except at 764.
SynthFinish(gs, ip, scene_outline, book, t, outcome, scene_data) ==
    LET scene_id == scene_outline.id
        marked == scene_id \in ip
        placeholder_scene == create_placeholder_scene(scene_id, scene_outline, book, t)
        parsed == outcome \in {"ok", "empty", "repaired"}
        ret == IF parsed /\ marked THEN scene_data ELSE placeholder_scene
        writes == IF marked \/ outcome = "error" THEN 1
                  ELSE IF outcome = "repaired" THEN 3 ELSE 2
    IN [Effect(Put(gs, scene_id, ret), ip \ {scene_id}, "done", ret, "", writes, 0)
           EXCEPT !.parsed = parsed]

(***************************************************************************)
(* generate_next_scene                                                     *)
(***************************************************************************)
\* lines 1692-1699: the character ids of the cached source scenes, first seen first
\* AppendNew without the membership test of line 1698
AppendAll(list, char_ids) == list \o char_ids

RECURSIVE AppendNew(_, _)
AppendNew(list, char_ids) ==
    IF char_ids = <<>> THEN list
    ELSE AppendNew(IF Head(char_ids) \in {list[i] : i \in DOMAIN list}
                   THEN list ELSE Append(list, Head(char_ids)),
                   Tail(char_ids))

RECURSIVE IncomingCharacters(_, _, _)
IncomingCharacters(list, incoming, gs) ==
    IF incoming = <<>> THEN list
    ELSE IncomingCharacters(IF Head(incoming).source \in DOMAIN gs
                            THEN AppendNew(list, gs[Head(incoming).source].characters)
                            ELSE list,
                            Tail(incoming), gs)

\* lines 1673-1699 (the id has an index entry) and 1728-1737 (it has none)
ResolveOutline(next_scene_id, graph, gs) ==
    IF next_scene_id \in DOMAIN graph
    THEN Outline(next_scene_id, IncomingCharacters(<<>>, graph[next_scene_id].incoming, gs), <<>>)
    ELSE Outline(next_scene_id, <<>>, <<scene_next, scene_alt>>)

\* ResolveReturn whose placeholder is returned without being stored
ResolveReturnNotStored(e, next_scene_id, book, t, r1, r2) ==
    IF e.pc = "done" /\ e.ret.kind # "empty"
    THEN LET tagged == [e.ret EXCEPT !.generated_with = "Gemini"]
         IN [e EXCEPT !.gs = MutateObject(e.gs, e.ret, tagged), !.ret = tagged]
    ELSE IF book.isNone
    THEN [e EXCEPT !.pc = "raised", !.ret = NoScene]
    ELSE [e EXCEPT !.pc = "done",
                   !.ret = generate_placeholder_scene(next_scene_id, book, t, r1, r2)]

\* lines 1706-1723 and 1747-1764: what generate_next_scene does once the synthesizer call
\* has ended with effect e (or was not made: e.pc = "unavailable"). A scene that is
\* truthy is tagged in place; an empty one, an exception or no Gemini lead to
\* generate_placeholder_scene, which raises when book_analysis is None.
ResolveReturn(e, next_scene_id, book, t, r1, r2) ==
    IF e.pc = "done" /\ e.ret.kind # "empty"
    THEN LET tagged == [e.ret EXCEPT !.generated_with = "Gemini"]
         IN [e EXCEPT !.gs = MutateObject(e.gs, e.ret, tagged), !.ret = tagged]
    ELSE IF book.isNone
    THEN [e EXCEPT !.pc = "raised", !.ret = NoScene]
    ELSE LET scene == generate_placeholder_scene(next_scene_id, book, t, r1, r2)
         IN [e EXCEPT !.gs = Put(e.gs, next_scene_id, scene), !.pc = "done",
                      !.ret = scene, !.pwrites = @ + 1]

(***************************************************************************)
(* The coroutines                                                          *)
(***************************************************************************)
NTasks == 2
Tasks == 1..NTasks

IdleTask ==
    [pc |-> "idle", kind |-> "", outline |-> Outline(<<>>, <<>>, <<>>), book |-> NoBook,
     polls |-> 0, ret |-> NoScene, path |-> "", batch |-> FALSE,
     spc |-> "", sret |-> NoScene, held |-> FALSE, generated |-> FALSE, session |-> 0,
     with |-> {}, parsed |-> FALSE]

\* the ids the front end asks for
ResolveIds == {scene_1, scene_2}

\* the scenes the text backend answers with, for the call t on scene_outline: one with
\* the id asked for, one with another id
BackendScenes(scene_outline, t) ==
    {Scene(scene_outline.id, "real", t, <<"watson">>,
           <<Plain("watson"), WithChoices("Narrator", <<Choice(<<"a">>, scene_2)>>)>>),
     Scene(scene_2, "real", t, <<>>, <<Plain("Narrator")>>)}
EmptyScene(t) == Scene(<<>>, "empty", t, <<>>, <<>>)

\* the outlines the planner hands to the fan-out
RunOutlines ==
    {<<Outline(scene_1, <<"holmes">>, <<scene_2>>)>>,
     <<Outline(scene_1, <<"watson">>, <<scene_2>>), Outline(scene_2, <<>>, <<>>)>>,
     <<Outline(scene_1, <<>>, <<>>), Outline(scene_1, <<>>, <<>>)>>,
     <<>>}

\* the synthesizer calls for the id of task t that are under way
UnderWay(t, scene_id) ==
    {u \in Tasks \ {t} : task[u].outline.id = scene_id /\ task[u].pc \in {"sleep", "backend"}}

\* the cache and the history after the stretch of code with effect e, run by task t
\* (polls is the loop counter of line 606, gone once the loop is left)
Apply(e, t, tk) ==
    /\ generated_scenes' = e.gs
    /\ in_progress_scenes' = e.ip
    /\ task' = [task EXCEPT ![t] = [tk EXCEPT !.pc = e.pc, !.ret = e.ret,
                                             !.path = IF e.path # "" THEN e.path ELSE @,
                                             !.polls = IF e.pc = "sleep" THEN @ ELSE 0,
                                             !.spc = e.spc, !.sret = e.sret,
                                             !.held = e.held, !.parsed = e.parsed,
                                             !.generated = @ \/ e.gens = 1]]
    /\ hist' = [hist EXCEPT !.writes[t] = @ + e.writes,
                            !.pwrites[t] = @ + e.pwrites,
                            !.gens = IF e.gens = 1
                                     THEN Put(@, tk.outline.id, Count(@, tk.outline.id) + 1)
                                     ELSE @]

\* ends a stretch of the synthesizer: a call made by generate_next_scene goes on in it
Wrap(e, tk, t, r1, r2) ==
    IF tk.kind = "resolve" /\ e.pc \in {"done", "raised"}
    THEN ResolveReturn(AtExit(e, tk.outline.id), tk.outline.id, tk.book, t, r1, r2)
    ELSE AtExit(e, tk.outline.id)

\* generate_next_scene(next_scene_id) is called and runs to its first suspension point
\* (the calls are numbered in the order they are made)
StartResolve(t, next_scene_id) ==
    /\ task[t].pc = "idle"
    /\ \A u \in Tasks : u < t => task[u].pc # "idle"
    /\ \E r \in RandomPairs :
        LET tk == [task[t] EXCEPT !.kind = "resolve",
                      !.outline = ResolveOutline(next_scene_id, scene_graph, generated_scenes),
                      !.book = book_analysis, !.session = hist.session,
                      !.with = UnderWay(t, next_scene_id)]
            none == Effect(generated_scenes, in_progress_scenes, "unavailable", NoScene,
                           "placeholder", 0, 0)
        IN IF next_scene_id \in DOMAIN generated_scenes
           THEN Apply(NoSynth(Effect(generated_scenes, in_progress_scenes, "done",
                                     generated_scenes[next_scene_id], "cached", 0, 0)), t, tk)
           ELSE IF ~GEMINI_AVAILABLE
           THEN Apply(NoSynth(ResolveReturn(none, next_scene_id, tk.book, t, r[1], r[2])), t, tk)
           ELSE Apply(Wrap(SynthEnter(generated_scenes, in_progress_scenes, tk.outline, tk.book),
                           tk, t, r[1], r[2]), t, tk)
    /\ UNCHANGED <<scene_graph, book_analysis, GEMINI_AVAILABLE, IMAGE_CACHE, run, validatorVars>>

\* a synthesizer call of the fan-out starts and runs to its first suspension point
ChildStart(t) ==
    /\ task[t].pc = "start"
    /\ Apply(AtExit(SynthEnter(generated_scenes, in_progress_scenes, task[t].outline,
                               task[t].book), task[t].outline.id),
             t, [task[t] EXCEPT !.session = hist.session,
                                !.with = UnderWay(t, task[t].outline.id)])
    /\ UNCHANGED <<scene_graph, book_analysis, GEMINI_AVAILABLE, IMAGE_CACHE, run, validatorVars>>

\* asyncio.sleep(1) of the poll loop is over
Poll(t) ==
    /\ task[t].pc = "sleep"
    /\ \E r \in RandomPairs :
        LET tk == [task[t] EXCEPT !.polls = @ + 1]
        IN Apply(Wrap(SynthPoll(generated_scenes, in_progress_scenes, tk.outline, tk.book,
                                task[t].polls), tk, t, r[1], r[2]), t, tk)
    /\ UNCHANGED <<scene_graph, book_analysis, GEMINI_AVAILABLE, IMAGE_CACHE, run, validatorVars>>

\* the text backend answers the call of task t
BackendReply(t) ==
    /\ task[t].pc = "backend"
    /\ \E outcome \in Outcomes, r \in RandomPairs :
       \E scene_data \in IF outcome = "empty" THEN {EmptyScene(t)}
                         ELSE IF outcome \in {"ok", "repaired"}
                         THEN BackendScenes(task[t].outline, t) ELSE {NoScene} :
          Apply(Wrap(SynthFinish(generated_scenes, in_progress_scenes, task[t].outline,
                                 task[t].book, t, outcome, scene_data),
                     task[t], t, r[1], r[2]), t, task[t])
    /\ UNCHANGED <<scene_graph, book_analysis, GEMINI_AVAILABLE, IMAGE_CACHE, run, validatorVars>>

(***************************************************************************)
(* generate_visual_novel and generate_initial_script_with_gemini           *)
(***************************************************************************)
SceneLimit == 5

\* generate_placeholder_script reads char["name"] of every character (line 1417)
PlaceholderScriptRaises(book) ==
    \E i \in DOMAIN book.characters : book.characters[i].name = NoName

\* the result of the offline path (lines 117, 120, 150, 250, 253): the handler at line 147
\* calls generate_placeholder_script again, which raises again
OfflineResult(book) == IF PlaceholderScriptRaises(book) THEN "raised" ELSE "offline"

\* "scene_<digits>"
SceneId(digits) == <<"s">> \o digits

\* a placeholder script that stops after its intro scene
PlaceholderScriptIntroOnly(book) ==
    <<Scene(scene_1, "offline", 1, <<>>,
            <<Plain("Narrator"), Plain("Narrator"),
              WithChoices("Narrator",
                  <<Choice(<<"With courage and determination">>, scene_2),
                    Choice(<<"With caution and planning">>, scene_3),
                    Choice(<<"Let fate decide my path">>, SceneId(<<"4">>))>>)>>)>>

\* lines 1382-1600, when nothing raises: the ten scenes of the placeholder script, each
\* its own object
generate_placeholder_script(book) ==
    LET characters == IF book.characters = <<>>
                      THEN <<Character("protagonist", "Protagonist"),
                             Character("supporting", "Supporting Character"),
                             Character("antagonist", "Antagonist")>>
                      ELSE book.characters
        main_char == characters[1]
        intro_scene ==
            Scene(scene_1, "offline", 1, <<>>,
                  <<Plain("Narrator"), Plain("Narrator")>>
                  \o [k \in 1..(IF Len(characters) < 2 THEN Len(characters) ELSE 2) |->
                         Plain("Narrator")]
                  \o <<WithChoices("Narrator",
                          <<Choice(<<"With courage and determination">>, scene_2),
                            Choice(<<"With caution and planning">>, scene_3),
                            Choice(<<"Let fate decide my path">>, SceneId(<<"4">>))>>)>>)
        main_scene ==
            Scene(scene_2, "offline", 2, <<main_char.id>>,
                  <<Plain(main_char.name), Plain("Narrator"),
                    WithChoices(main_char.name,
                        <<Choice(<<"The direct approach">>, SceneId(<<"5">>)),
                          Choice(<<"Seek allies first">>, SceneId(<<"6">>)),
                          Choice(<<"Gather more information">>, SceneId(<<"7">>))>>)>>)
        planning_scene ==
            Scene(scene_3, "offline", 3, <<main_char.id>>,
                  <<Plain(main_char.name), Plain("Narrator"),
                    WithChoices(main_char.name,
                        <<Choice(<<"Study the situation">>, SceneId(<<"8">>)),
                          Choice(<<"Prepare equipment">>, scene_9),
                          Choice(<<"Consult with others">>, SceneId(<<"1", "0">>))>>)>>)
        fate_scene ==
            Scene(SceneId(<<"4">>), "offline", 4, <<>>,
                  <<Plain("Narrator"), Plain("Narrator"),
                    WithChoices("Narrator",
                        <<Choice(<<"A mysterious encounter">>, SceneId(<<"7">>)),
                          Choice(<<"An unexpected opportunity">>, SceneId(<<"8">>)),
                          Choice(<<"A moment of revelation">>, scene_9)>>)>>)
        basic_scenes == <<SceneId(<<"5">>), SceneId(<<"6">>), SceneId(<<"7">>),
                          SceneId(<<"8">>), scene_9, SceneId(<<"1", "0">>)>>
        basic(i) ==
            LET char == characters[(i % Len(characters)) + 1]
                last == WithChoices("Narrator",
                            <<Choice(<<"Return to the beginning">>, scene_1),
                              Choice(<<"Continue on this path">>, scene_1)>>)
            IN IF i % 2 = 0
               THEN Scene(basic_scenes[i + 1], "offline", i + 5, <<char.id>>,
                          <<Plain("Narrator"), Plain(char.name), last>>)
               ELSE Scene(basic_scenes[i + 1], "offline", i + 5, <<>>,
                          <<Plain("Narrator"), last>>)
    IN <<intro_scene, main_scene, planning_scene, fate_scene>>
       \o [k \in 1..Len(basic_scenes) |-> basic(k - 1)]

\* the idle tasks, lowest first
IdleTasks == SelectSeq([i \in Tasks |-> i], LAMBDA i : task[i].pc = "idle")

\* lines 93-120 and 199-220: the caches are replaced, Gemini is probed, the planner is
\* called (its backend call is the first suspension point)
\* a run that goes on to the planner whether Gemini is ready or not
RunStartAlwaysPlans(book, gemini_ready) ==
    /\ run.pc = "idle"
    /\ book_analysis' = book
    /\ generated_scenes' = <<>>
    /\ scene_graph' = <<>>
    /\ in_progress_scenes' = {}
    /\ run' = [run EXCEPT !.pc = "outline", !.book = book, !.gemini_ready = gemini_ready]
    /\ hist' = [hist EXCEPT !.gens = <<>>, !.session = @ + 1]
    /\ UNCHANGED <<GEMINI_AVAILABLE, IMAGE_CACHE, task, validatorVars>>

\* a run that keeps the scenes of the cache and only adds to them
RunStartKeepsScenes(book, gemini_ready) ==
    /\ run.pc = "idle"
    /\ book_analysis' = book
    /\ scene_graph' = <<>>
    /\ in_progress_scenes' = {}
    /\ run' = IF gemini_ready
              THEN [run EXCEPT !.pc = "outline", !.book = book, !.gemini_ready = TRUE]
              ELSE [run EXCEPT !.pc = "done", !.book = book, !.gemini_ready = FALSE,
                               !.result = OfflineResult(book)]
    /\ hist' = [hist EXCEPT !.gens = <<>>, !.session = @ + 1]
    /\ UNCHANGED <<generated_scenes, GEMINI_AVAILABLE, IMAGE_CACHE, task, validatorVars>>

RunStart(book, gemini_ready) ==
    /\ run.pc = "idle"
    /\ book_analysis' = book
    /\ generated_scenes' = <<>>
    /\ scene_graph' = <<>>
    /\ in_progress_scenes' = {}
    /\ run' = IF gemini_ready
              THEN [run EXCEPT !.pc = "outline", !.book = book, !.gemini_ready = TRUE]
              ELSE [run EXCEPT !.pc = "done", !.book = book, !.gemini_ready = FALSE,
                               !.result = OfflineResult(book)]
    /\ hist' = [hist EXCEPT !.gens = <<>>, !.session = @ + 1]
    /\ UNCHANGED <<GEMINI_AVAILABLE, IMAGE_CACHE, task, validatorVars>>

\* lines 220-231: the planner has returned outline; one synthesizer call per outline of
\* outline[:5] is created and gathered
RunOutline(outline) ==
    LET planned == SubSeq(outline, 1, IF Len(outline) < SceneLimit THEN Len(outline) ELSE SceneLimit)
        idle == IdleTasks
    IN /\ run.pc = "outline"
       /\ Len(planned) <= Len(idle)
       /\ task' = [t \in Tasks |->
                    IF \E k \in DOMAIN planned : idle[k] = t
                    THEN [IdleTask EXCEPT !.pc = "start", !.kind = "synth", !.batch = TRUE,
                             !.book = run.book,
                             !.outline = planned[CHOOSE k \in DOMAIN planned : idle[k] = t]]
                    ELSE task[t]]
       /\ run' = [run EXCEPT !.pc = "gather", !.children = SubSeq(idle, 1, Len(planned))]
       /\ UNCHANGED <<generated_scenes, in_progress_scenes, scene_graph, book_analysis,
                      GEMINI_AVAILABLE, IMAGE_CACHE, hist, validatorVars>>

\* initial_scenes of line 231 and valid_scenes of line 234
InitialScenes == [k \in DOMAIN run.children |-> task[run.children[k]].ret]
ValidScenes == SelectSeq(InitialScenes, LAMBDA scene : scene.kind # "empty")

\* the validator works in place: the cache slots holding a validated object show it
ValidatedInPlace(gs, validated) ==
    [k \in DOMAIN gs |->
        IF \E i \in DOMAIN validated : SameObject(gs[k], validated[i])
        THEN validated[CHOOSE i \in DOMAIN validated : SameObject(gs[k], validated[i])]
        ELSE gs[k]]

\* lines 231-253 and 126-145: the gather is over. It is over as soon as a child has
\* raised (every child has run to its first suspension point by then, the others go on
\* running), or when every child has returned. An exception of a child, or no valid
\* scene, makes generate_placeholder_script the script (line 250, 253), and an
\* exception of that one ends the run; the script is then enhanced (nothing of a scene
\* that is modelled here changes, and nothing suspends), validated and indexed. The
\* placeholder script has scene_1, no invalid reference and no unreachable scene, so
\* the validator uses no iteration order and no random pick on it.
RunGather ==
    /\ run.pc = "gather"
    /\ \/ /\ \/ /\ \E k \in DOMAIN run.children : task[run.children[k]].pc = "raised"
                /\ \A k \in DOMAIN run.children : task[run.children[k]].pc # "start"
             \/ /\ \A k \in DOMAIN run.children : task[run.children[k]].pc = "done"
                /\ ValidScenes = <<>>
          /\ run' = [run EXCEPT !.pc = "done", !.result = OfflineResult(run.book)]
          /\ IF PlaceholderScriptRaises(run.book)
             THEN UNCHANGED <<generated_scenes, scene_graph, validatorVars>>
             ELSE LET vn_script == generate_placeholder_script(run.book)
                      validated == validate_and_fix_scene_connections(vn_script, <<>>, <<>>, <<>>)
                      cache == update_scene_graph([scenes |-> generated_scenes,
                                                   graph  |-> scene_graph], validated)
                  IN /\ generated_scenes' = cache.scenes
                     /\ scene_graph' = cache.graph
                     /\ script' = validated
                     /\ script0' = vn_script
                     /\ vchoice' = NoChoice
                     /\ vpc' = "validated"
       \/ /\ \A k \in DOMAIN run.children : task[run.children[k]].pc = "done"
          /\ ValidScenes # <<>>
          /\ \E ord \in Orders(SceneIds(ValidScenes)) :
                LET reachable == Reachable(ValidScenes, ord)
                    unreachable == SceneIds(ValidScenes) \ reachable
                IN \E uord \in Orders(unreachable) :
                   \E pick \in [unreachable -> reachable] :
                      LET validated == validate_and_fix_scene_connections(ValidScenes, ord, uord, pick)
                          cache == update_scene_graph(
                                      [scenes |-> ValidatedInPlace(generated_scenes, validated),
                                       graph  |-> scene_graph], validated)
                      IN /\ generated_scenes' = cache.scenes
                         /\ scene_graph' = cache.graph
                         /\ script' = validated
                         /\ script0' = ValidScenes
                         /\ vchoice' = [ord |-> ord, uord |-> uord, pick |-> pick]
                         /\ vpc' = "validated"
          /\ run' = [run EXCEPT !.pc = "done", !.result = "script"]
    /\ UNCHANGED <<in_progress_scenes, book_analysis, GEMINI_AVAILABLE, IMAGE_CACHE, task, hist>>

Init ==
    /\ generated_scenes = <<>>
    /\ in_progress_scenes = {}
    /\ scene_graph = <<>>
    /\ book_analysis = NoBook
    /\ GEMINI_AVAILABLE \in BOOLEAN
    /\ IMAGE_CACHE = NoImages
    /\ task = [t \in Tasks |-> IdleTask]
    /\ run = [pc |-> "idle", book |-> NoBook, gemini_ready |-> FALSE, children |-> <<>>,
              result |-> ""]
    /\ hist = [writes |-> [t \in Tasks |-> 0], pwrites |-> [t \in Tasks |-> 0],
               gens |-> <<>>, session |-> 0]
    /\ script = <<>>
    /\ script0 = <<>>
    /\ vpc = "idle"
    /\ vchoice = NoChoice

Next ==
    \/ \E book \in {BookOk, BookNoName, BookNullName}, gemini_ready \in BOOLEAN :
          (gemini_ready => GEMINI_AVAILABLE) /\ RunStart(book, gemini_ready)
    \/ \E outline \in RunOutlines : RunOutline(outline)
    \/ RunGather
    \/ \E t \in Tasks : ChildStart(t)
    \/ \E t \in Tasks, next_scene_id \in ResolveIds : StartResolve(t, next_scene_id)
    \/ \E t \in Tasks : Poll(t)
    \/ \E t \in Tasks : BackendReply(t)

Spec == Init /\ [][Next]_vars

(***************************************************************************)
(* Properties of the cache and of the de-duplication protocol              *)
(***************************************************************************)
\* task t is a synthesizer call of the current session
InSession(t) == task[t].kind # "" /\ task[t].pc # "start" /\ task[t].session = hist.session

\* two synthesizer calls for the same id that were under way at the same time
Concurrent(t, u) ==
    /\ t # u
    /\ task[t].outline.id = task[u].outline.id
    /\ (u \in task[t].with \/ t \in task[u].with)

\* the synthesizer call of task t ends in this step
SynthExits(t) == task[t].spc = "" /\ task'[t].spc # ""

\* C3 as stated: of concurrent synthesizer calls for one id only one produces a scene and
\* all of them return the same object, whatever the latency of the text backend
C3_SingleFlight ==
    \A t \in Tasks, u \in Tasks :
        (Concurrent(t, u) /\ InSession(t) /\ InSession(u)) =>
            /\ ~(task[t].generated /\ task[u].generated)
            /\ (task[t].spc = "done" /\ task[u].spc = "done")
                  => SameObject(task[t].sret, task[u].sret)

\* C3 amended: of concurrent synthesizer calls for one id at most one calls the text
\* backend as long as none of them has run out of polls, and every call that returns
\* hands out the object the cache holds under the id at that moment
C3_SingleFlightUntilTimeout ==
    /\ [](\A t \in Tasks, u \in Tasks :
            (/\ Concurrent(t, u) /\ InSession(t) /\ InSession(u)
             /\ task[t].path # "timed out" /\ task[u].path # "timed out")
                => ~(task[t].generated /\ task[u].generated))
    /\ [][\A t \in Tasks : (SynthExits(t) /\ task'[t].spc = "done") => task'[t].held]_vars

C3_Witness ==
    \E t \in Tasks, u \in Tasks :
        /\ Concurrent(t, u) /\ InSession(t) /\ InSession(u)
        /\ task[t].generated /\ task[t].spc = "done"
        /\ task[u].path = "waited" /\ task[u].spc = "done"
        /\ SameObject(task[t].sret, task[u].sret)

\* C4: no scene id is at once in progress and cached
C4_ExactlyOneState == in_progress_scenes \cap DOMAIN generated_scenes = {}

\* C5: when a synthesizer call ends, on whatever path, its id is no longer in progress
\* and is a key of the cache
C5_ExitClearsMarker ==
    [][\A t \in Tasks :
          SynthExits(t) => /\ task'[t].outline.id \notin in_progress_scenes'
                           /\ task'[t].outline.id \in DOMAIN generated_scenes']_vars

\* C6: a synthesizer call that called the text backend has written the cache entry of
\* its id exactly once when it returns
C6_WritesExactlyOnce ==
    \A t \in Tasks :
        (InSession(t) /\ task[t].generated /\ task[t].spc # "") => hist.writes[t] = 1

\* C7: no synthesizer call ends with an exception
C7_NeverRaises == \A t \in Tasks : task[t].spc # "raised"

\* task t enters the synthesizer or the resolver in this step
Enters(t) ==
    \/ task[t].pc = "start" /\ task'[t].pc # "start"
    \/ task[t].pc = "idle" /\ task'[t].kind = "resolve"

\* C8: a call of the synthesizer or of the resolver for a cached id returns the cached
\* scene at once, calls no backend and leaves cache, markers and index as they are
C8_CachedIsReturned ==
    [][\A t \in Tasks :
          (Enters(t) /\ task'[t].outline.id \in DOMAIN generated_scenes) =>
              /\ task'[t].pc = "done"
              /\ task'[t].ret = generated_scenes[task'[t].outline.id]
              /\ ~task'[t].generated
              /\ hist'.gens = hist.gens
              /\ UNCHANGED <<generated_scenes, in_progress_scenes, scene_graph>>]_vars

C8_Witness ==
    \E t \in Tasks, u \in Tasks :
        /\ task[t].kind = "synth" /\ task[t].pc = "done" /\ task[t].path = "cached"
        /\ task[u].generated

\* C9: a waiter wakes up at most PollLimit times; it returns the scene once the scene is
\* cached, sleeps again while wake-ups are left, and after the last one claims the id and
\* goes on to generate
C9_BoundedWait ==
    [][\A t \in Tasks :
          (task[t].pc = "sleep" /\ task'[t] # task[t]) =>
              LET scene_id == task[t].outline.id
              IN /\ task[t].polls < PollLimit
                 /\ scene_id \in DOMAIN generated_scenes =>
                       /\ task'[t].spc = "done"
                       /\ task'[t].sret = generated_scenes[scene_id]
                       /\ ~task'[t].generated
                 /\ (scene_id \notin DOMAIN generated_scenes /\ task[t].polls + 1 < PollLimit) =>
                       /\ task'[t].pc = "sleep"
                       /\ task'[t].polls = task[t].polls + 1
                 /\ (scene_id \notin DOMAIN generated_scenes /\ task[t].polls + 1 = PollLimit) =>
                       /\ task'[t].pc # "sleep"
                       /\ task'[t].path = "timed out"
                       /\ scene_id \in in_progress_scenes']_vars

C9_Witness ==
    \E t \in Tasks, u \in Tasks :
        /\ task[t].path = "timed out" /\ task[t].generated /\ task[t].spc = "done"
        /\ u \in task[t].with /\ task[u].spc = "done"

\* C10: within a session no backend generation is started for an id that is a key of
\* the cache
C10_NoGenerationOnceCached ==
    [][\A scene_id \in DOMAIN generated_scenes :
          hist'.session = hist.session =>
              Count(hist'.gens, scene_id) = Count(hist.gens, scene_id)]_vars

C10_Witness ==
    \E t \in Tasks :
        /\ InSession(t) /\ task[t].pc = "done" /\ task[t].path \in {"cached", "waited"}
        /\ task[t].outline.id \in DOMAIN generated_scenes
        /\ Count(hist.gens, task[t].outline.id) = 1

\* C11: when two generations of one id overlap after a waiter's polls ran out, each of
\* them ends normally and the one whose backend answer parsed returns that answer: the
\* marker the other one cleared makes no difference
C11_RaceIsBenign ==
    \A t \in Tasks, u \in Tasks :
        (/\ Concurrent(t, u) /\ InSession(t) /\ InSession(u)
         /\ task[u].path = "timed out" /\ task[t].generated /\ task[u].generated
         /\ task[t].spc # "" /\ task[u].spc # "") =>
            \A v \in {t, u} :
                /\ task[v].spc = "done"
                /\ task[v].parsed => task[v].sret.kind \in {"real", "empty"}

\* a scene list without dangling references whose scenes are all reachable from the entry
ValidGraph(sd, ord) ==
    /\ Dangling(sd) = {}
    /\ SceneIds(sd) \subseteq ReachableFrom(sd, EntryId(sd, ord))

\* C12: validate run on a graph that is already valid changes nothing, no target is
\* rewritten and no choice is appended
C12_IdempotentRevalidation ==
    (Validated /\ ValidGraph(script0, vchoice.ord)) => script = script0

C12_Witness ==
    /\ vpc = "revalidated"
    /\ ValidGraph(script0, vchoice.ord)
    /\ Cardinality(SceneIds(script0)) >= 2
    /\ NextSceneRefs(script0) # {}
    /\ script = script0

\* C13: for the scenes of the outlines scene_1 (connects to the undeclared scene_2) and
\* scene_3 (no connections), validation ends with the choice of scene_1 pointing to an
\* existing id, no dangling reference, and scene_3 reachable from scene_1, whatever the
\* iteration order and the random pick
C13_EndToEndRepair ==
    (vpc = "validated" /\ script0 = EndToEndScript) =>
        /\ \A r \in NextSceneRefs(script) :
              r.source_scene = scene_1 => r.next_scene \in SceneIds(script)
        /\ Dangling(script) = {}
        /\ scene_3 \in ReachableFrom(script, scene_1)

\* C14: every write to the cache that generate_next_scene makes itself comes after the
\* synthesizer's cache check and in-progress check, and none is made for an id that is
\* in progress
C14_ResolverUsesGuard ==
    [][\A t \in Tasks :
          hist'.pwrites[t] > hist.pwrites[t] =>
              /\ task'[t].spc # ""
              /\ task'[t].outline.id \notin in_progress_scenes']_vars

\* the call of generate_next_scene of task t returns in this step
ResolveReturns(t) ==
    task'[t].kind = "resolve" /\ task[t].pc # "done" /\ task'[t].pc = "done"

\* C15: when generate_next_scene(id) returns, for a cached, a known or an unknown id,
\* id is a key of the cache
C15_ResolvedIsCached ==
    [][\A t \in Tasks :
          ResolveReturns(t) => task'[t].outline.id \in DOMAIN generated_scenes']_vars

C15_Witness ==
    \E t \in Tasks, u \in Tasks :
        /\ task[t].kind = "resolve" /\ task[t].pc = "done" /\ task[t].generated
        /\ task[t].outline.id \in DOMAIN generated_scenes
        /\ task[u].kind = "resolve" /\ task[u].pc = "done" /\ task[u].path = "cached"
        /\ task[u].outline.id \in DOMAIN generated_scenes

\* the targets of the choices of a scene that do not leave the story
ChoiceTargets(scene) ==
    {c.nextScene : c \in {ch \in {DialogueChoices(scene.dialogue)[k] :
                                     k \in DOMAIN DialogueChoices(scene.dialogue)} :
                             ch.nextScene # exit}}

\* C16: when generate_next_scene(id) has synthesized a scene, the index has an entry
\* for id whose outgoing edges are the non-exit choices of the scene, and every target
\* has the incoming edge from id
C16_ResolvedIsIndexed ==
    [][\A t \in Tasks :
          (ResolveReturns(t) /\ task'[t].generated) =>
              LET scene_id == task'[t].outline.id
                  scene == task'[t].ret
              IN /\ scene_id \in DOMAIN scene_graph'
                 /\ Targets(scene_graph'[scene_id].outgoing) = ChoiceTargets(scene)
                 /\ \A target \in ChoiceTargets(scene) :
                       /\ target \in DOMAIN scene_graph'
                       /\ scene_id \in Sources(scene_graph'[target].incoming)]_vars

(***************************************************************************)
(* The outline choice of generate_next_scene on its own: an index entry    *)
(* for scene_2 with at most MaxIncoming incoming edges, any part of whose  *)
(* source scenes is cached.                                                *)
(***************************************************************************)
MaxIncoming == 2

OSources == LET ids == <<scene_1, scene_3, scene_intro>>
            IN {ids[k] : k \in 1..(IF MaxIncoming < 3 THEN MaxIncoming ELSE 3)}
OCharacters == {<<>>, <<"holmes">>, <<"watson", "holmes">>, <<"holmes", "holmes">>}

\* incoming edge lists: update_scene_graph keeps one edge per source (line 190)
OIncoming ==
    UNION {{inc \in [1..n -> OSources] : \A i, j \in 1..n : inc[i] = inc[j] => i = j} :
              n \in 0..MaxIncoming}

OGraph(inc) ==
    (scene_2 :> [outgoing |-> <<>>,
                 incoming |-> [k \in DOMAIN inc |-> [source |-> inc[k], text |-> <<"a">>]]])
      @@ [src \in {inc[k] : k \in DOMAIN inc} |->
            [outgoing |-> <<[target |-> scene_2, text |-> <<"a">>]>>, incoming |-> <<>>]]

OCaches ==
    UNION {{[src \in S |-> Scene(src, "real", 0, chars[src], <<Plain("Narrator")>>)] :
               chars \in [S -> OCharacters]} : S \in SUBSET OSources}

\* lines 1671-1699 and 1725-1737 for next_scene_id
PickOutline(next_scene_id) ==
    /\ task = <<>>
    /\ next_scene_id \notin DOMAIN generated_scenes
    /\ task' = <<ResolveOutline(next_scene_id, scene_graph, generated_scenes)>>
    /\ UNCHANGED <<generated_scenes, in_progress_scenes, scene_graph, book_analysis,
                   GEMINI_AVAILABLE, IMAGE_CACHE, run, hist, validatorVars>>

InitO ==
    /\ scene_graph \in {OGraph(inc) : inc \in OIncoming}
    /\ generated_scenes \in OCaches
    /\ in_progress_scenes = {}
    /\ book_analysis = NoBook
    /\ GEMINI_AVAILABLE = TRUE
    /\ IMAGE_CACHE = NoImages
    /\ task = <<>>
    /\ run = <<>>
    /\ hist = <<>>
    /\ script = <<>>
    /\ script0 = <<>>
    /\ vpc = "idle"
    /\ vchoice = NoChoice

NextO == \E next_scene_id \in {scene_2, scene_9} : PickOutline(next_scene_id)

SpecO == InitO /\ [][NextO]_vars

\* the character ids of the cached source scenes of the incoming edges of scene_id
SourceCharacters(scene_id) ==
    UNION {{generated_scenes[src].characters[k] : k \in DOMAIN generated_scenes[src].characters} :
              src \in Sources(scene_graph[scene_id].incoming) \cap DOMAIN generated_scenes}

\* C17: for an id that is not cached, the outline of an indexed id has as characters
\* exactly the character ids of the cached source scenes of its incoming edges, each
\* once; the outline of an id that is not indexed has no characters and connects to
\* scene_next and scene_alt
C17_OutlineByClass ==
    task # <<>> =>
        LET outline == task[1]
            characters == {outline.characters[k] : k \in DOMAIN outline.characters}
        IN IF outline.id \in DOMAIN scene_graph
           THEN /\ characters = SourceCharacters(outline.id)
                /\ Cardinality(characters) = Len(outline.characters)
           ELSE /\ outline.characters = <<>>
                /\ outline.connects_to = <<scene_next, scene_alt>>

C17_Witness ==
    /\ task # <<>>
    /\ task[1].id = scene_2
    /\ task[1].characters = <<"watson", "holmes">>
    /\ Cardinality(Sources(scene_graph[scene_2].incoming) \cap DOMAIN generated_scenes) = 2
    /\ \A src \in DOMAIN generated_scenes : generated_scenes[src].characters # <<>>

(***************************************************************************)
(* generate_script_outline_with_gemini on its own, and the cut of its      *)
(* result by generate_initial_script_with_gemini. The text backend answers *)
(* with at most MaxPlanned scene outlines.                                 *)
(***************************************************************************)
MaxPlanned == 6

\* lines 427-448
FallbackOutline ==
    [scenes |-> <<Outline(scene_1, <<"protagonist">>, <<scene_2a, scene_2b>>),
                  Outline(scene_2a, <<"protagonist", "supporting">>, <<scene_3>>)>>]

PlannedOutlines == {Outline(scene_1, <<>>, <<scene_2>>), Outline(scene_2, <<>>, <<>>)}

\* what the text backend can answer:
\*   json       text that json.loads turns into a dict, with its "scenes" (a dict
\*              without "scenes" reads as no scenes)
\*   repaired   text that parses to such a dict after attempt_json_repair
\*   not a dict text that parses to something without .get
\*   malformed  text that does not parse, repaired or not
\*   error      the backend call fails or the response has no text
PlannerAnswers ==
    {[kind |-> k, data |-> [scenes |-> sc]] :
        k \in {"json", "repaired"},
        sc \in UNION {[1..n -> PlannedOutlines] : n \in 0..MaxPlanned}}
    \cup {[kind |-> k, data |-> [scenes |-> <<>>]] : k \in {"not a dict", "malformed", "error"}}

\* lines 351-448: scene_limit only goes into the prompt (line 325)
generate_script_outline_with_gemini(answer, scene_limit) ==
    IF answer.kind \in {"json", "repaired"} THEN answer.data ELSE FallbackOutline

\* line 220: the planner is called with scene_limit=5
Plan ==
    /\ run.pc = "plan"
    /\ run' = [run EXCEPT !.pc = "planned",
                  !.outline = generate_script_outline_with_gemini(run.answer, SceneLimit)]
    /\ UNCHANGED <<generated_scenes, in_progress_scenes, scene_graph, book_analysis,
                   GEMINI_AVAILABLE, IMAGE_CACHE, task, hist, validatorVars>>

\* line 226: outline.get("scenes", [])[:5]
FanOut ==
    /\ run.pc = "planned"
    /\ run' = [run EXCEPT !.pc = "fanned",
                  !.planned = SubSeq(run.outline.scenes, 1,
                                     IF Len(run.outline.scenes) < SceneLimit
                                     THEN Len(run.outline.scenes) ELSE SceneLimit)]
    /\ UNCHANGED <<generated_scenes, in_progress_scenes, scene_graph, book_analysis,
                   GEMINI_AVAILABLE, IMAGE_CACHE, task, hist, validatorVars>>

InitP ==
    /\ run \in {[pc |-> "plan", answer |-> a, outline |-> [scenes |-> <<>>], planned |-> <<>>] :
                   a \in PlannerAnswers}
    /\ generated_scenes = <<>>
    /\ in_progress_scenes = {}
    /\ scene_graph = <<>>
    /\ book_analysis = NoBook
    /\ GEMINI_AVAILABLE = TRUE
    /\ IMAGE_CACHE = NoImages
    /\ task = <<>>
    /\ hist = <<>>
    /\ script = <<>>
    /\ script0 = <<>>
    /\ vpc = "idle"
    /\ vchoice = NoChoice

NextP == Plan \/ FanOut

SpecP == InitP /\ [][NextP]_vars

\* the planner has returned
Planned == run.pc \in {"planned", "fanned"}

\* C18: the outline the planner returns has at most scene_limit scenes, whatever the
\* number of scenes in the backend's answer
C18_OutlineWithinLimit == Planned => Len(run.outline.scenes) <= SceneLimit

\* C19: the planner's result has at least one scene outline, and it is the fallback
\* outline when the backend fails or its answer is malformed
C19_OutlineNeverEmpty ==
    Planned =>
        /\ Len(run.outline.scenes) >= 1
        /\ run.answer.kind \in {"not a dict", "malformed", "error"}
              => run.outline = FallbackOutline

(***************************************************************************)
(* update_scene_graph on its own: the index starts empty, a scene list is  *)
(* indexed, indexed once more, and then a second scene list is indexed.    *)
(* script0 is the first list, script the second.                           *)
(***************************************************************************)
GDialogues ==
    {<<Plain("Narrator")>>,
     <<WithChoices("Narrator", <<Choice(<<"a">>, scene_2), Choice(<<"b">>, exit)>>)>>,
     <<Plain("Narrator"),
       WithChoices("Narrator", <<Choice(<<"a">>, scene_1), Choice(<<"b">>, scene_1)>>),
       WithChoices("Narrator", <<Choice(<<"c">>, scene_9)>>)>>}
GScenes == {Scene(i, "real", 0, <<>>, d) : i \in {scene_1, scene_2}, d \in GDialogues}
GScripts ==
    UNION {{[i \in 1..n |-> [f[i] EXCEPT !.by = i]] : f \in [1..n -> GScenes]} : n \in 1..MaxScenes}

\* one call update_scene_graph(script_data), lines 152-197
UpdateIndex ==
    /\ vpc \in {"unindexed", "indexed", "indexed again"}
    /\ LET script_data == IF vpc = "indexed again" THEN script ELSE script0
           cache == update_scene_graph([scenes |-> generated_scenes, graph |-> scene_graph],
                                       script_data)
       IN /\ generated_scenes' = cache.scenes
          /\ scene_graph' = cache.graph
    /\ vpc' = CASE vpc = "unindexed" -> "indexed"
                [] vpc = "indexed" -> "indexed again"
                [] OTHER -> "merged"
    /\ UNCHANGED <<in_progress_scenes, book_analysis, GEMINI_AVAILABLE, IMAGE_CACHE, task, run, hist,
                   script, script0, vchoice>>

InitG ==
    /\ script0 \in GScripts
    /\ script \in GScripts
    /\ vpc = "unindexed"
    /\ vchoice = NoChoice
    /\ scene_graph = <<>>
    /\ generated_scenes = <<>>
    /\ in_progress_scenes = {}
    /\ book_analysis = NoBook
    /\ GEMINI_AVAILABLE = TRUE
    /\ IMAGE_CACHE = NoImages
    /\ task = <<>>
    /\ run = <<>>
    /\ hist = <<>>

NextG == UpdateIndex

SpecG == InitG /\ [][NextG]_vars

\* every edge of the list old is in the list new, at the same place
EdgesKept(old, new) == Len(old) <= Len(new) /\ SubSeq(new, 1, Len(old)) = old

\* C20: indexing the same scene list again leaves the index unchanged, and indexing
\* any scene list keeps every entry and every edge the index already had
C20_IdempotentAndMerging ==
    [][/\ (vpc = "indexed" /\ vpc' = "indexed again") => scene_graph' = scene_graph
       /\ \A id \in DOMAIN scene_graph :
             /\ id \in DOMAIN scene_graph'
             /\ EdgesKept(scene_graph[id].outgoing, scene_graph'[id].outgoing)
             /\ EdgesKept(scene_graph[id].incoming, scene_graph'[id].incoming)]_vars

\* both scene lists are indexed, the first one twice; the first gave the index edges
\* and the second added to it
C20_Witness ==
    LET first == update_scene_graph([scenes |-> <<>>, graph |-> <<>>], script0).graph
    IN /\ vpc = "merged"
       /\ script # script0
       /\ \E id \in DOMAIN first : first[id].outgoing # <<>>
       /\ \E id \in DOMAIN first : first[id].incoming # <<>>
       /\ scene_graph # first
       /\ \E id \in DOMAIN scene_graph : id \notin DOMAIN first

(***************************************************************************)
(* enhance_visual_novel on its own. The enhancer reads and writes only the *)
(* background of a scene and the image of its characters, so a scene is    *)
(* [id, background, characters] here. A value is a Python str (its text,   *)
(* its length, whether it starts with "data:") or None.                    *)
(***************************************************************************)
Str(text, len, data) == [kind |-> "str", text |-> text, len |-> len, data |-> data]
None == [kind |-> "None", text |-> <<>>, len |-> 0, data |-> FALSE]

\* background descriptions long enough to be sent to the image backend (line 1115)
Descriptions ==
    {Str(<<"A foggy street in London">>, 24, FALSE), Str(<<"221B Baker Street, at night">>, 27, FALSE)}
\* the other backgrounds: none (scene.get("background", "") reads ""), a short
\* description, an image that is already a data URI
OtherBackgrounds ==
    {Str(<<>>, 0, FALSE), Str(<<"library">>, 7, FALSE), Str(<<"data:image/png;base64,...">>, 25, TRUE)}
CharacterIds == {"holmes"}

\* line 1266: the data URI url_to_data_uri builds for the image made from a prompt
JpegOf(key) == Str(<<"data:image/jpeg;base64,", key>>, 30, TRUE)
\* lines 1087-1093 and 1211: the built-in images
default_backgrounds(scene_type) == Str(<<"data:image/svg+xml;utf8,", scene_type>>, 30, TRUE)
scene_types == <<"main", "secondary", "dark", "light", "forest">>
DefaultCharacterImage(char_id) == Str(<<"data:image/svg+xml;utf8,", char_id>>, 30, TRUE)

\* what the image backend does for one prompt: generate_image_with_replicate returns
\* None ("no url"), or it returns a URL and url_to_data_uri returns None ("no fetch")
\* or the data URI ("ok")
ImageOutcomes == {"no url", "no fetch", "ok"}

\* lines 1113-1132 and 1183-1196, for the keys of one loop: a key that is cached or that
\* gets no URL is left alone, any other gets what url_to_data_uri returned
GenerateImages(cache, keys, outcome) ==
    LET added == {k \in keys : k \notin DOMAIN cache /\ outcome[k] # "no url"}
    IN [k \in DOMAIN cache \cup added |->
           IF k \in DOMAIN cache THEN cache[k]
           ELSE IF outcome[k] = "ok" THEN JpegOf(k) ELSE None]

\* lines 1084-1149: the scenes and IMAGE_CACHE["backgrounds"] afterwards
generate_backgrounds(sd, use_ai_images, cache, outcome) ==
    LET unique_backgrounds ==
            {sd[i].background : i \in {j \in DOMAIN sd : /\ sd[j].background.kind = "str"
                                                          /\ ~sd[j].background.data}}
        after == IF use_ai_images
                 THEN GenerateImages(cache, {d \in unique_backgrounds : d.len >= 10}, outcome)
                 ELSE cache
    IN [cache |-> after,
        scenes |-> [i \in DOMAIN sd |->
            LET background_desc == sd[i].background IN
            IF background_desc.kind = "str" /\ background_desc.data THEN sd[i]
            ELSE IF use_ai_images /\ background_desc \in DOMAIN after
            THEN [sd[i] EXCEPT !.background = after[background_desc]]
            ELSE [sd[i] EXCEPT !.background =
                     default_backgrounds(scene_types[((i - 1) % Len(scene_types)) + 1])]]]

\* lines 1151-1212: the scenes and IMAGE_CACHE["characters"] afterwards
generate_character_images(sd, use_ai_images, cache, outcome) ==
    LET unique_characters ==
            UNION {{sd[i].characters[k].id : k \in DOMAIN sd[i].characters} : i \in DOMAIN sd}
        after == IF use_ai_images THEN GenerateImages(cache, unique_characters, outcome)
                 ELSE cache
    IN [cache |-> after,
        scenes |-> [i \in DOMAIN sd |->
            [sd[i] EXCEPT !.characters =
                [k \in DOMAIN sd[i].characters |->
                    LET char_id == sd[i].characters[k].id IN
                    IF use_ai_images /\ char_id \in DOMAIN after
                    THEN [id |-> char_id, image |-> after[char_id]]
                    ELSE [id |-> char_id, image |-> DefaultCharacterImage(char_id)]]]]]

EScene(id, background, char_ids) ==
    [id |-> id, background |-> background,
     characters |-> [k \in DOMAIN char_ids |->
                        [id |-> char_ids[k], image |-> Str(<<"a description">>, 13, FALSE)]]]
EScenes ==
    {EScene(scene_1, b, c) :
        b \in OtherBackgrounds \cup Descriptions, c \in {<<>>, <<"holmes">>}}
EScripts == UNION {[1..n -> EScenes] : n \in 1..MaxScenes}

\* one call enhance_visual_novel(script_data, characters), lines 1062-1082: nothing in it
\* suspends (replicate.run and requests.get block), so it is one step
Enhance ==
    /\ run.pc = "enhance"
    /\ LET backgrounds == generate_backgrounds(script, run.use_ai_images,
                                               IMAGE_CACHE.backgrounds, run.background_outcome)
           characters == generate_character_images(backgrounds.scenes, run.use_ai_images,
                                                   IMAGE_CACHE.characters, run.character_outcome)
       IN /\ IMAGE_CACHE' = [backgrounds |-> backgrounds.cache, characters |-> characters.cache]
          /\ script' = characters.scenes
    /\ run' = [run EXCEPT !.pc = "enhanced"]
    /\ UNCHANGED <<generated_scenes, in_progress_scenes, scene_graph, book_analysis,
                   GEMINI_AVAILABLE, task, hist, script0, vpc, vchoice>>

\* the images an earlier run left in the cache
EarlierImages ==
    {[backgrounds |-> [d \in D |-> JpegOf(d)], characters |-> [c \in C |-> JpegOf(c)]] :
        D \in SUBSET Descriptions, C \in SUBSET CharacterIds}

InitE ==
    /\ script0 \in EScripts
    /\ script = script0
    /\ IMAGE_CACHE \in EarlierImages
    /\ run \in {[pc |-> "enhance", use_ai_images |-> u, background_outcome |-> b,
                 character_outcome |-> c] :
                   u \in BOOLEAN, b \in [Descriptions -> ImageOutcomes],
                   c \in [CharacterIds -> ImageOutcomes]}
    /\ generated_scenes = <<>>
    /\ in_progress_scenes = {}
    /\ scene_graph = <<>>
    /\ book_analysis = NoBook
    /\ GEMINI_AVAILABLE = TRUE
    /\ task = <<>>
    /\ hist = <<>>
    /\ vpc = "idle"
    /\ vchoice = NoChoice

NextE == Enhance

SpecE == InitE /\ [][NextE]_vars

\* an image made by the image backend, or a built-in one
IsImage(value) == value.kind = "str" /\ value.data

\* C21: after the enhancer every scene background is an image of the image backend or a
\* built-in image, also when the backend makes no image or the image cannot be fetched
C21_BackgroundsAreImages ==
    run.pc = "enhanced" => \A i \in DOMAIN script : IsImage(script[i].background)

(***************************************************************************)
(* Properties of the top-level run (specification Spec)                    *)
(***************************************************************************)
\* the step in which generate_visual_novel is called
RunStarts == run.pc = "idle" /\ run'.pc # "idle"

InFlight(t) == task[t].batch /\ task[t].pc \notin {"idle", "done", "raised"}

\* the step in which the run enhances, validates and indexes a script
RunsLateStages == run.pc = "gather" /\ vpc # "validated" /\ vpc' = "validated"

\* C23: the enhancer, the validator and the index update run only after every
\* synthesizer call of the batch has completed
C23_StagesAfterFanIn ==
    [][RunsLateStages => \A k \in DOMAIN run.children : ~InFlight(run.children[k])]_vars

(***************************************************************************)
(* The start of a later run: an earlier run has validated and indexed the  *)
(* scene list script, under another book analysis, and calls that are      *)
(* still in flight have left markers in in_progress_scenes.                *)
(***************************************************************************)
InitR ==
    /\ script \in GScripts
    /\ script0 = script
    /\ vpc = "validated"
    /\ vchoice = NoChoice
    /\ LET cache == update_scene_graph([scenes |-> <<>>, graph |-> <<>>], script)
       IN generated_scenes = cache.scenes /\ scene_graph = cache.graph
    /\ in_progress_scenes \in SUBSET {scene_1, scene_2}
    /\ book_analysis \in {NoBook, BookOk}
    /\ GEMINI_AVAILABLE \in BOOLEAN
    /\ IMAGE_CACHE = NoImages
    /\ task = [t \in Tasks |-> IdleTask]
    /\ run = [pc |-> "idle", book |-> NoBook, gemini_ready |-> FALSE, children |-> <<>>,
              result |-> ""]
    /\ hist = [writes |-> [t \in Tasks |-> 0], pwrites |-> [t \in Tasks |-> 0],
               gens |-> <<>>, session |-> 1]

NextR ==
    \E book \in {BookOk, BookNoName, BookNullName}, gemini_ready \in BOOLEAN :
        (gemini_ready => GEMINI_AVAILABLE) /\ RunStart(book, gemini_ready)

SpecR == InitR /\ [][NextR]_vars

\* C24: the start of a run makes its input the book analysis and empties the scene
\* cache, the in-progress set and the index, whatever they held
C24_RunStartResets ==
    [][RunStarts =>
          /\ book_analysis' = run'.book
          /\ generated_scenes' = <<>>
          /\ in_progress_scenes' = {}
          /\ scene_graph' = <<>>]_vars

\* a run has started with a new book analysis after an earlier one had indexed a script
C24_Witness ==
    /\ run.pc = "outline"
    /\ hist.session = 2
    /\ script0 # <<>>
    /\ book_analysis = BookNullName
    /\ generated_scenes = <<>>
    /\ in_progress_scenes = {}
    /\ scene_graph = <<>>

(***************************************************************************)
(* Properties of the placeholder scene                                     *)
(***************************************************************************)
\* a scene without the identity of the object
Structure(scene) == [scene EXCEPT !.by = 0]

\* the synthesizer call of task t ended with a placeholder it built itself
BuiltPlaceholder(t) == task[t].sret.kind = "placeholder" /\ task[t].sret.by = t

ExploreChoices(sd, scene_id) ==
    {p \in UNION {UNION {{<<i, j, k>> : k \in DOMAIN sd[i].dialogue[j].choices} :
                         j \in DOMAIN sd[i].dialogue} : i \in DOMAIN sd} :
        sd[p[1]].dialogue[p[2]].choices[p[3]] = Choice(ExploreText, scene_id)}

\* C26: for each unreachable scene the source the validator picks is a scene of the
\* list that is reachable from the entry, and exactly one choice "Explore a different
\* path" to the unreachable scene is appended, to the source's last dialogue entry with
\* a choices list (none when the source has no such entry)
C26_RepairFromReachableScene ==
    vpc = "validated" =>
        \A scene_id \in Unreachable(script0, vchoice.ord) :
            LET source_scene_id == vchoice.pick[scene_id]
                added == ExploreChoices(script, scene_id)
            IN /\ source_scene_id \in SceneIds(script0)
               /\ source_scene_id \in ReachableFrom(script0, EntryId(script0, vchoice.ord))
               /\ \A p \in added :
                     /\ script[p[1]].id = source_scene_id
                     /\ p[2] = LastChoiceEntry(script0[p[1]].dialogue)
               /\ Cardinality(added) =
                     IF \E i \in DOMAIN script0 : /\ script0[i].id = source_scene_id
                                                  /\ LastChoiceEntry(script0[i].dialogue) # 0
                     THEN 1 ELSE 0

\* C27: the scenes the reachability pass counts as reachable are those reachable from
\* one entry (scene_intro, else scene_1, else one arbitrary scene): with scene_intro
\* and scene_1 both present, scene_1 counts only when choices lead to it from scene_intro
C27_SingleEntry ==
    vpc = "validated" =>
        Reachable(script0, vchoice.ord) \cap SceneIds(script0)
            = ReachableFrom(script0, EntryId(script0, vchoice.ord)) \cap SceneIds(script0)

\* the choices the scene list had before validation, as <<scene, entry, choice>> places
ChoicePlaces(sd) ==
    UNION {UNION {{<<i, j, k>> : k \in DOMAIN sd[i].dialogue[j].choices} :
                  j \in DOMAIN sd[i].dialogue} : i \in DOMAIN sd}
ChoiceAt(sd, p) == sd[p[1]].dialogue[p[2]].choices[p[3]]
IsInvalid(sd, choice) == choice.nextScene # exit /\ choice.nextScene \notin SceneIds(sd)

\* the known ids that contain the id next or are contained in it
Matching(sd, next) == {sid \in SceneIds(sd) : IsSubstring(next, sid) \/ IsSubstring(sid, next)}

\* C28: an invalid reference is rewritten to a known id that matches it as a substring
\* (either way round) when there is one, and to some known id only when there is none
C28_SubstringMatchFirst ==
    vpc = "validated" =>
        \A p \in ChoicePlaces(script0) :
            IsInvalid(script0, ChoiceAt(script0, p)) =>
                LET next == ChoiceAt(script0, p).nextScene
                    fixed == ChoiceAt(script, p).nextScene
                IN IF Matching(script0, next) # {}
                   THEN fixed \in Matching(script0, next)
                   ELSE fixed \in SceneIds(script0)

\* validate has rewritten one invalid reference that had a substring match and one
\* that had none
C28_Witness ==
    /\ vpc = "validated"
    /\ \E p \in ChoicePlaces(script0) :
          /\ IsInvalid(script0, ChoiceAt(script0, p))
          /\ Matching(script0, ChoiceAt(script0, p).nextScene) # {}
          /\ Matching(script0, ChoiceAt(script0, p).nextScene) # SceneIds(script0)
          /\ ChoiceAt(script, p).nextScene \in Matching(script0, ChoiceAt(script0, p).nextScene)
    /\ \E p \in ChoicePlaces(script0) :
          /\ IsInvalid(script0, ChoiceAt(script0, p))
          /\ Matching(script0, ChoiceAt(script0, p).nextScene) = {}
          /\ ChoiceAt(script, p).nextScene \in SceneIds(script0)

\* C29: validate keeps every scene, dialogue entry and choice in its place; it changes
\* only the nextScene of invalid references and appends "Explore a different path"
\* choices at the end of choices lists
C29_ValidateFrame ==
    Validated =>
        /\ Len(script) = Len(script0)
        /\ \A i \in DOMAIN script0 :
              /\ [script[i] EXCEPT !.dialogue = <<>>] = [script0[i] EXCEPT !.dialogue = <<>>]
              /\ Len(script[i].dialogue) = Len(script0[i].dialogue)
              /\ \A j \in DOMAIN script0[i].dialogue :
                    LET old == script0[i].dialogue[j]
                        new == script[i].dialogue[j]
                    IN /\ [new EXCEPT !.choices = <<>>] = [old EXCEPT !.choices = <<>>]
                       /\ Len(new.choices) >= Len(old.choices)
                       /\ \A k \in DOMAIN new.choices :
                             IF k > Len(old.choices) THEN new.choices[k].text = ExploreText
                             ELSE /\ new.choices[k].text = old.choices[k].text
                                  /\ ~IsInvalid(script0, old.choices[k])
                                        => new.choices[k] = old.choices[k]

\* validate has rewritten a reference and appended a choice in a list that also has a
\* valid reference and an exit choice
C29_Witness ==
    /\ vpc = "validated"
    /\ \E p \in ChoicePlaces(script0) :
          IsInvalid(script0, ChoiceAt(script0, p)) /\ ChoiceAt(script, p) # ChoiceAt(script0, p)
    /\ \E p \in ChoicePlaces(script0) :
          ChoiceAt(script0, p).nextScene \in SceneIds(script0)
    /\ \E p \in ChoicePlaces(script0) : ChoiceAt(script0, p).nextScene = exit
    /\ ChoicePlaces(script) # ChoicePlaces(script0)

\* C30: the dialogue of a placeholder scene is two narrator lines, one character line
\* exactly when the outline has a character, and one last entry that carries the choices
C30_PlaceholderDialogue ==
    \A t \in Tasks :
        BuiltPlaceholder(t) =>
            LET dialogue == task[t].sret.dialogue
                attached == task[t].outline.characters # <<>>
            IN /\ Len(dialogue) = IF attached THEN 4 ELSE 3
               /\ \A j \in {1, 2} : dialogue[j] = Plain("Narrator")
               /\ attached => ~dialogue[3].hasChoices /\ dialogue[3].speaker # "Narrator"
               /\ dialogue[Len(dialogue)].hasChoices
               /\ \A j \in 1..(Len(dialogue) - 1) : ~dialogue[j].hasChoices

\* C31: the last dialogue entry of a placeholder scene has one choice per connects_to
\* target of the outline, in the outline's order and pointing at that target, or the
\* one choice "Continue" when the outline has no connection
C31_PlaceholderChoices ==
    \A t \in Tasks :
        BuiltPlaceholder(t) =>
            LET connections == task[t].outline.connects_to
                choices == task[t].sret.dialogue[Len(task[t].sret.dialogue)].choices
            IN IF connections = <<>>
               THEN choices = <<Choice(<<"Continue">>, scene_next)>>
               ELSE /\ Len(choices) = Len(connections)
                    /\ \A k \in DOMAIN connections :
                          choices[k] = Choice(<<"Continue to">> \o connections[k], connections[k])

\* a placeholder has been built for an outline with two connections
C31_Witness ==
    \E t \in Tasks :
        /\ BuiltPlaceholder(t)
        /\ Len(task[t].outline.connects_to) = 2
        /\ task[t].outline.connects_to[1] # task[t].outline.connects_to[2]

(***************************************************************************)
(* Properties of the synthesizer's cache                                   *)
(***************************************************************************)
\* no synthesizer call, of this session or begun before it, has left the poll loop by
\* running out of polls
NoTimeout == \A t \in Tasks : task[t].path # "timed out"

\* C32: as long as no poll loop has timed out, the text backend has been called at most
\* once for each scene id in the session, whatever the number and the interleaving of
\* the synthesizer calls and generate_next_scene calls for the id
C32_BackendOncePerId ==
    NoTimeout => \A scene_id \in DOMAIN hist.gens : Count(hist.gens, scene_id) <= 1

\* a synthesizer call of the fan-out and a generate_next_scene call for the same id were
\* under way together, one called the backend, the other waited for it, both are over
C32_Witness ==
    \E t \in Tasks, u \in Tasks :
        /\ Concurrent(t, u) /\ InSession(t) /\ InSession(u)
        /\ task[t].kind = "synth" /\ task[u].kind = "resolve"
        /\ task[t].generated /\ task[t].spc = "done"
        /\ task[u].path = "waited" /\ task[u].pc = "done"
        /\ Count(hist.gens, task[t].outline.id) = 1
        /\ NoTimeout

\* C33: when a synthesizer call returns a scene, on whatever path, the scene is the
\* object the cache holds under the outline's id at that moment, also when two
\* generations of the id race
C33_ReturnsCachedValue ==
    [][\A t \in Tasks :
          (SynthExits(t) /\ task'[t].spc = "done") =>
              /\ task'[t].held
              /\ task'[t].kind = "synth" =>
                    /\ task'[t].outline.id \in DOMAIN generated_scenes'
                    /\ SameObject(generated_scenes'[task'[t].outline.id], task'[t].ret)]_vars

\* two generations of one id have raced (the second after a timed-out wait) and both
\* have returned
C33_Witness ==
    \E t \in Tasks, u \in Tasks :
        /\ Concurrent(t, u) /\ InSession(t) /\ InSession(u)
        /\ task[t].generated /\ task[u].generated
        /\ task[u].path = "timed out"
        /\ task[t].spc = "done" /\ task[u].spc = "done"
        /\ task[t].held /\ task[u].held
        /\ ~SameObject(task[t].sret, task[u].sret)

(***************************************************************************)
(* Properties of the initial script                                        *)
(***************************************************************************)
\* the scenes of the script generate_initial_script_with_gemini has built (line 241)
InitialScriptBuilt == run.pc = "done" /\ run.result = "script"

\* C34: the scenes list of the script built by the initial generation has no two scenes
\* with the same id, also when the outline names an id twice and the second request is
\* answered from the cache
C34_InitialScriptIdsUnique ==
    InitialScriptBuilt =>
        \A i \in DOMAIN script0, j \in DOMAIN script0 : i # j => script0[i].id # script0[j].id

\* C35: the scene stored under a key of generated_scenes has that key as its id,
\* whatever id the text backend has put in its answer
C35_KeyIsSceneId ==
    \A k \in DOMAIN generated_scenes : generated_scenes[k].id = k

(***************************************************************************)
(* Properties of the index                                                 *)
(***************************************************************************)
\* the places of the edges from s to t in s's outgoing list and in t's incoming list
OutgoingTo(s, t) == {i \in DOMAIN scene_graph[s].outgoing : scene_graph[s].outgoing[i].target = t}
IncomingFrom(t, s) == {i \in DOMAIN scene_graph[t].incoming : scene_graph[t].incoming[i].source = s}

\* C36: after any sequence of update_scene_graph calls the index is symmetric: s has an
\* outgoing edge to t exactly when t has an incoming edge from s, with the same choice
\* text, and there is at most one outgoing edge per target and one incoming edge per
\* source
C36_IndexSymmetric ==
    /\ \A s \in DOMAIN scene_graph : Targets(scene_graph[s].outgoing) \subseteq DOMAIN scene_graph
    /\ \A t \in DOMAIN scene_graph : Sources(scene_graph[t].incoming) \subseteq DOMAIN scene_graph
    /\ \A s \in DOMAIN scene_graph, t \in DOMAIN scene_graph :
          /\ Cardinality(OutgoingTo(s, t)) <= 1
          /\ Cardinality(IncomingFrom(t, s)) <= 1
          /\ (OutgoingTo(s, t) = {}) <=> (IncomingFrom(t, s) = {})
          /\ \A i \in OutgoingTo(s, t), j \in IncomingFrom(t, s) :
                scene_graph[s].outgoing[i].text = scene_graph[t].incoming[j].text

\* three updates are done; a scene with two choices to one target under different texts
\* was indexed, a scene has two outgoing edges and a scene has two incoming edges
C36_Witness ==
    /\ vpc = "merged"
    /\ \E k \in DOMAIN script0 :
          \E a \in DOMAIN DialogueChoices(script0[k].dialogue),
             b \in DOMAIN DialogueChoices(script0[k].dialogue) :
                /\ DialogueChoices(script0[k].dialogue)[a].nextScene
                      = DialogueChoices(script0[k].dialogue)[b].nextScene
                /\ DialogueChoices(script0[k].dialogue)[a].text
                      # DialogueChoices(script0[k].dialogue)[b].text
    /\ \E s \in DOMAIN scene_graph : Len(scene_graph[s].outgoing) >= 2
    /\ \E t \in DOMAIN scene_graph : Len(scene_graph[t].incoming) >= 2

(***************************************************************************)
(* Properties of the validator's reachability repair                       *)
(***************************************************************************)
\* the ids reachable from the validator's starting ids over the choices of the scene
\* list as the reference repair has left it
ReachableAfterRepair(sd, ord) ==
    Expand(InitialReachable(SceneIds(sd), ord), NextSceneRefs(RepairReferences(sd, ord)))

\* C37: the validator appends a choice "Explore a different path" only to scenes that are
\* not reachable in the graph as it stands after the reference repair: a scene reached
\* through a choice whose target was just rewritten gets no extra choice
C37_ExploreOnlyIfUnreachableAfterRepair ==
    vpc = "validated" =>
        \A p \in ChoicePlaces(script) \ ChoicePlaces(script0) :
            ChoiceAt(script, p).nextScene \notin ReachableAfterRepair(script0, vchoice.ord)

(***************************************************************************)
(* Properties of the offline script                                        *)
(***************************************************************************)
\* the run has ended on the offline path with a script
OfflineScriptReturned == run.pc = "done" /\ run.result = "offline"

\* the placeholder script of that run as generate_placeholder_script built it: returned
\* as it is at lines 117 and 120, handed to the later stages after a failed fan-out
OfflineScript ==
    IF run.gemini_ready THEN script0 ELSE generate_placeholder_script(run.book)

\* C38: the offline placeholder script is a valid graph as it is built, without the
\* validator: every choice target is the id of one of its scenes and every one of its
\* scenes is reachable from scene_1
C38_OfflineScriptIsValidGraph ==
    OfflineScriptReturned =>
        /\ scene_1 \in SceneIds(OfflineScript)
        /\ \A ref \in NextSceneRefs(OfflineScript) : ref.next_scene \in SceneIds(OfflineScript)
        /\ SceneIds(OfflineScript) \subseteq ReachableFrom(OfflineScript, scene_1)

\* a run has returned the placeholder script straight from the availability check, for
\* a book with characters
C38_Witness ==
    /\ OfflineScriptReturned
    /\ ~run.gemini_ready
    /\ run.book.characters # <<>>
    /\ Len(OfflineScript) = 10
    /\ Cardinality(SceneIds(OfflineScript)) = 10

====
